---- MODULE Spec2Model ----
(***************************************************************************)
(* A model of newscrypt's subtitle engine (services/subtitle_service.py)   *)
(* and of the part of video composition that uses it                       *)
(* (services/video_service.py).                                            *)
(*                                                                         *)
(* Text is a sequence of one-character strings, so that tokenizing,        *)
(* stripping, lower-casing and joining are computed and not assumed.       *)
(* Times are exact rationals [num, den] in seconds, kept in lowest terms,  *)
(* so that equal values are equal records.                                 *)
(***************************************************************************)
EXTENDS Integers, Sequences, FiniteSets, TLC

VARIABLES
    script_text,        \* create_subtitle_chunks: the narration text
    total_duration,     \* create_subtitle_chunks: the narration's duration
    chunk_call,         \* "none" before the call, then "returned" or "raised"
    subtitle_chunks,    \* the list create_subtitle_chunks returned
    call_word_timings,  \* its local word_timings, as they were when it returned
    word,               \* _estimate_word_duration: the token
    est_call,           \* "none" before the call, then "returned"
    est_duration,       \* the duration _estimate_word_duration returned
    est_before_pause,   \* its local duration before the pause of line 290, if
                        \* the call came so far
    render_text,        \* _create_subtitle_image: the chunk text
    video_width,        \* _create_subtitle_image: the width of the video
    video_height,       \* _create_subtitle_image: the height of the video
    font,               \* the metrics of the font _load_font returned
    render_call,        \* "none" before the call, then "returned" (an image)
                        \* or "returned_none"
    subtitle_image,     \* what _create_subtitle_image returned: None or the
                        \* layout of the image
    moviepy_available,  \* subtitle_service.py: the module's flag
    pil_available,      \* subtitle_service.py: the module's flag
    video_moviepy_available,  \* video_service.py: the module's flag
    temp_files,         \* per SubtitleService instance: self.temp_files
    disk,               \* the files of OUTPUT_DIR: path -> what was written
    clips,              \* per instance: what generate_subtitle_clips returned last
    gen_call,           \* per instance: "none", then "returned" or "raised"
    gen_outcome,        \* per instance: the libraries' outcomes in the last call
    cleanup_call,       \* per instance: how the cleanup_temp_files call that was
                        \* its last call ended ("returned", "raised"), else "none"
    compose_pc,         \* compose_video: where the call is
    compose_chunks,     \* compose_video: its local subtitle_chunks
    final_video,        \* compose_video: its local final_video
    compose_error,      \* compose_video: what made it fail, or "none"
    compose_result,     \* compose_video: what it returned
    tts_script,         \* generate_tts: the script text
    tts_configured,     \* per provider: its library imported and its client or key set
    tts_pc,             \* generate_tts: "none", "trying" (in the loop, at the
                        \* method after those of tts_log), "returned" (a path),
                        \* "returned_none" or "raised"
    tts_log,            \* the calls of provider methods so far and how each ended
    tts_result          \* what generate_tts returned

\* the SubtitleService of the facade (main.py) and that of the VideoService
Services == {"subtitles", "video"}

chunker_vars == <<script_text, total_duration, chunk_call, subtitle_chunks, call_word_timings>>
estimator_vars == <<word, est_call, est_duration, est_before_pause>>
renderer_vars == <<render_text, video_width, video_height, font, render_call, subtitle_image>>
flags == <<moviepy_available, pil_available, video_moviepy_available>>
subtitle_vars == <<temp_files, disk, clips, gen_call, gen_outcome, cleanup_call>>
compose_vars == <<compose_pc, compose_chunks, final_video, compose_error, compose_result>>
pipeline_vars == <<flags, subtitle_vars, compose_vars>>
tts_vars == <<tts_script, tts_configured, tts_pc, tts_log, tts_result>>
vars == <<chunker_vars, estimator_vars, renderer_vars, pipeline_vars, tts_vars>>

(***************************************************************************)
(* Bounds of the model.                                                    *)
(***************************************************************************)
\* the longest word list a text is built from
MaxWords == 7
\* texts with irregular whitespace are built from word lists up to this length
MaxPaddedWords == 2
\* total_duration ranges over k*k/2 seconds, k in 0..MaxDurationStep
MaxDurationStep == 4
\* the estimator's tokens: every string over TokenAlphabet up to this length
MaxTokenLen == 4
\* the pipeline's narrations have up to this many chunks
MaxChunks == 2
\* generate_subtitle_clips is not called directly once temp_files would grow
\* beyond this length
MaxTempFiles == MaxChunks

(***************************************************************************)
(* Configuration (newscrypt/config.py).                                    *)
(***************************************************************************)
SUBTITLE_CHUNK_DURATION == 3
SUBTITLE_MAX_WORDS_PER_CHUNK == 6
VIDEO_WIDTH == 1080
VIDEO_HEIGHT == 1920

(***************************************************************************)
(* Exact arithmetic on seconds.                                            *)
(***************************************************************************)
Abs(n) == IF n < 0 THEN -n ELSE n

Max(a, b) == IF a >= b THEN a ELSE b

RECURSIVE GCD(_, _)
GCD(a, b) == IF b = 0 THEN a ELSE GCD(b, a % b)

\* n/d in lowest terms, d > 0
Rat(n, d) == LET g == GCD(Abs(n), d) IN [num |-> n \div g, den |-> d \div g]

RInt(n) == [num |-> n, den |-> 1]
Zero == RInt(0)
RAdd(a, b) == Rat(a.num * b.den + b.num * a.den, a.den * b.den)
RSub(a, b) == Rat(a.num * b.den - b.num * a.den, a.den * b.den)
RMul(a, b) == Rat(a.num * b.num, a.den * b.den)
\* a / b for b > 0
RDiv(a, b) == Rat(a.num * b.den, a.den * b.num)
RLe(a, b) == a.num * b.den <= b.num * a.den
RLt(a, b) == a.num * b.den < b.num * a.den
RGe(a, b) == RLe(b, a)
RGt(a, b) == RLt(b, a)

(***************************************************************************)
(* Strings as sequences of characters.                                     *)
(***************************************************************************)
Uppers == <<"A", "B", "C", "D", "E", "F", "G", "H", "I", "J", "K", "L", "M",
            "N", "O", "P", "Q", "R", "S", "T", "U", "V", "W", "X", "Y", "Z">>
Lowers == <<"a", "b", "c", "d", "e", "f", "g", "h", "i", "j", "k", "l", "m",
            "n", "o", "p", "q", "r", "s", "t", "u", "v", "w", "x", "y", "z">>

\* str.lower() on one character
LowerChar(c) ==
    IF \E i \in 1..Len(Uppers) : Uppers[i] = c
    THEN Lowers[CHOOSE i \in 1..Len(Uppers) : Uppers[i] = c]
    ELSE c

\* str.lower()
Lower(s) == [i \in 1..Len(s) |-> LowerChar(s[i])]

\* the characters str.split() with no argument splits on
Whitespace == {" ", "\t", "\n"}

\* the characters '.,!?;:' of the punctuation tests
Punctuation == {".", ",", "!", "?", ";", ":"}

\* the characters of strip('.,!?;:"')
StripChars == Punctuation \cup {"\""}

RECURSIVE SplitFrom(_, _, _, _)
\* scan s from position i; cur is the token being read, acc the tokens read
SplitFrom(s, i, cur, acc) ==
    IF i > Len(s)
    THEN IF cur = <<>> THEN acc ELSE Append(acc, cur)
    ELSE IF s[i] \in Whitespace
         THEN SplitFrom(s, i + 1, <<>>, IF cur = <<>> THEN acc ELSE Append(acc, cur))
         ELSE SplitFrom(s, i + 1, Append(cur, s[i]), acc)

\* str.split(): the maximal runs of non-whitespace characters, in order
Split(s) == SplitFrom(s, 1, <<>>, <<>>)

RECURSIVE Join(_, _)
\* sep.join(ws)
Join(ws, sep) ==
    IF ws = <<>> THEN <<>>
    ELSE IF Len(ws) = 1 THEN ws[1]
    ELSE ws[1] \o sep \o Join(Tail(ws), sep)

RECURSIVE LStrip(_, _)
LStrip(s, cs) == IF s # <<>> /\ s[1] \in cs THEN LStrip(Tail(s), cs) ELSE s

RECURSIVE RStrip(_, _)
RStrip(s, cs) ==
    IF s # <<>> /\ s[Len(s)] \in cs THEN RStrip(SubSeq(s, 1, Len(s) - 1), cs) ELSE s

\* str.strip(cs): leading and trailing characters of cs removed
Strip(s, cs) == RStrip(LStrip(s, cs), cs)

\* any(p in s for p in cs)
ContainsAny(s, cs) == \E i \in 1..Len(s) : s[i] \in cs

(***************************************************************************)
(* SubtitleService._estimate_word_duration                                 *)
(***************************************************************************)
base_duration == Rat(15, 100)

vowels == {"a", "e", "i", "o", "u"}

fast_words == { <<"a">>, <<"a", "n">>, <<"a", "n", "d">>, <<"t", "h", "e">>,
                <<"i", "s">>, <<"i", "n">>, <<"o", "n">>, <<"a", "t">>,
                <<"t", "o">>, <<"o", "f">>, <<"i", "t">>, <<"o", "r">> }

RECURSIVE CountSyllables(_, _, _)
\* the loop of lines 271-275 from position i: one syllable per run of vowels
CountSyllables(w, i, prev_was_vowel) ==
    IF i > Len(w) THEN 0
    ELSE LET is_vowel == w[i] \in vowels
         IN (IF is_vowel /\ ~prev_was_vowel THEN 1 ELSE 0)
            + CountSyllables(w, i + 1, is_vowel)

\* a bug: the floor of line 277 forgotten
SyllablesNoFloor(w) == CountSyllables(w, 1, FALSE)

\* line 277
Syllables(w) == Max(1, CountSyllables(w, 1, FALSE))

\* the pause of lines 289-291: the test reads the cleaned word
PunctuationPause(w) == IF ContainsAny(w, Punctuation) THEN Rat(2, 10) ELSE Zero

\* a bug: > for >= in the length test
LongWordOver8(w) == Len(w) > 8

\* line 281
LongWord(w) == Len(w) >= 8

\* line 263: the token lower-cased and stripped
CleanWord(token) == Strip(Lower(token), StripChars)

\* lines 277-287: the local duration of the cleaned word w before the pause
DurationBeforePause(w) ==
    LET d0 == RMul(base_duration, RInt(Syllables(w)))
        d1 == IF LongWord(w) THEN RMul(d0, Rat(12, 10)) ELSE d0
    IN IF w \in fast_words THEN RMul(d1, Rat(7, 10)) ELSE d1

_estimate_word_duration(token) ==
    LET w == CleanWord(token)
    IN IF w = <<>> THEN Rat(1, 10)
       ELSE RAdd(DurationBeforePause(w), PunctuationPause(w))

(***************************************************************************)
(* SubtitleService.create_subtitle_chunks                                  *)
(***************************************************************************)
RECURSIVE BuildTimings(_, _, _, _)
\* the loop of lines 48-57 from word i: the timings so far and the running total
BuildTimings(words, i, word_timings, cumulative_time) ==
    IF i > Len(words)
    THEN [word_timings |-> word_timings, cumulative_time |-> cumulative_time]
    ELSE LET word_duration == _estimate_word_duration(words[i])
         IN BuildTimings(words, i + 1,
                Append(word_timings,
                       [word |-> words[i],
                        duration |-> word_duration,
                        start_time |-> cumulative_time,
                        end_time |-> RAdd(cumulative_time, word_duration)]),
                RAdd(cumulative_time, word_duration))

\* a bug: no guard before the division
ScaleGuardMissing(total, cumulative_time) == TRUE

\* a bug: scaling skipped when the narration has no duration
ScaleGuardOnTotal(total, cumulative_time) ==
    RGt(cumulative_time, Zero) /\ RGt(total, Zero)

\* the guard of line 60
ScaleGuard(total, cumulative_time) == RGt(cumulative_time, Zero)

\* a bug: line 64 forgotten, end_time left unscaled
ScaleTimingsNoEnd(word_timings, scale_factor) ==
    [i \in 1..Len(word_timings) |->
        [word |-> word_timings[i].word,
         duration |-> RMul(word_timings[i].duration, scale_factor),
         start_time |-> RMul(word_timings[i].start_time, scale_factor),
         end_time |-> word_timings[i].end_time]]

\* lines 62-65
ScaleTimings(word_timings, scale_factor) ==
    [i \in 1..Len(word_timings) |->
        [word |-> word_timings[i].word,
         duration |-> RMul(word_timings[i].duration, scale_factor),
         start_time |-> RMul(word_timings[i].start_time, scale_factor),
         end_time |-> RMul(word_timings[i].end_time, scale_factor)]]

\* lines 42-65: the word timings after scaling; the division of line 61 raises
\* ZeroDivisionError when it is reached with a zero divisor
ScaledTimings(text, total) ==
    LET built == BuildTimings(Split(text), 1, <<>>, Zero)
    IN IF ScaleGuard(total, built.cumulative_time)
       THEN IF built.cumulative_time = Zero
            THEN [raised |-> TRUE, word_timings |-> <<>>]
            ELSE [raised |-> FALSE,
                  word_timings |-> ScaleTimings(built.word_timings,
                                        RDiv(total, built.cumulative_time))]
       ELSE [raised |-> FALSE, word_timings |-> built.word_timings]

\* a bug: the last word does not close its chunk
should_end_chunk_no_last(word_timings, i, current_chunk, chunk_start) ==
    \/ RGe(RSub(word_timings[i].end_time, chunk_start), RInt(SUBTITLE_CHUNK_DURATION))
    \/ ContainsAny(word_timings[i].word, Punctuation)
    \/ Len(current_chunk) >= SUBTITLE_MAX_WORDS_PER_CHUNK

\* a bug: > for >= in the word count test
should_end_chunk_off_by_one(word_timings, i, current_chunk, chunk_start) ==
    \/ RGe(RSub(word_timings[i].end_time, chunk_start), RInt(SUBTITLE_CHUNK_DURATION))
    \/ ContainsAny(word_timings[i].word, Punctuation)
    \/ Len(current_chunk) > SUBTITLE_MAX_WORDS_PER_CHUNK
    \/ i = Len(word_timings)

\* a bug: the punctuation test forgotten
should_end_chunk_no_punctuation(word_timings, i, current_chunk, chunk_start) ==
    \/ RGe(RSub(word_timings[i].end_time, chunk_start), RInt(SUBTITLE_CHUNK_DURATION))
    \/ Len(current_chunk) >= SUBTITLE_MAX_WORDS_PER_CHUNK
    \/ i = Len(word_timings)

\* a bug: the duration test forgotten
should_end_chunk_no_duration(word_timings, i, current_chunk, chunk_start) ==
    \/ ContainsAny(word_timings[i].word, Punctuation)
    \/ Len(current_chunk) >= SUBTITLE_MAX_WORDS_PER_CHUNK
    \/ i = Len(word_timings)

\* lines 75-80, after word i was appended to current_chunk
should_end_chunk(word_timings, i, current_chunk, chunk_start) ==
    \/ RGe(RSub(word_timings[i].end_time, chunk_start), RInt(SUBTITLE_CHUNK_DURATION))
    \/ ContainsAny(word_timings[i].word, Punctuation)
    \/ Len(current_chunk) >= SUBTITLE_MAX_WORDS_PER_CHUNK
    \/ i = Len(word_timings)

\* a bug: the next chunk starts where the closing word started
NextChunkStartThisWord(word_timings, i) == word_timings[i].start_time

\* line 91: where the next chunk starts, after the chunk closed at word i
NextChunkStart(word_timings, i) == word_timings[i + 1].start_time

RECURSIVE GroupWords(_, _, _, _, _)
\* the loop of lines 71-91 from word i
GroupWords(word_timings, i, current_chunk, chunk_start, chunks) ==
    IF i > Len(word_timings) THEN chunks
    ELSE LET timing == word_timings[i]
             appended == Append(current_chunk, timing.word)
         IN IF should_end_chunk(word_timings, i, appended, chunk_start) /\ appended # <<>>
            THEN GroupWords(word_timings, i + 1, <<>>,
                     IF i < Len(word_timings)
                     THEN NextChunkStart(word_timings, i)
                     ELSE chunk_start,
                     Append(chunks,
                            [text |-> Join(appended, <<" ">>),
                             start_time |-> chunk_start,
                             end_time |-> timing.end_time,
                             duration |-> RSub(timing.end_time, chunk_start)]))
            ELSE GroupWords(word_timings, i + 1, appended, chunk_start, chunks)

\* the call: what it returns, or that it raised
create_subtitle_chunks(text, total) ==
    LET scaled == ScaledTimings(text, total)
    IN IF scaled.raised
       THEN [raised |-> TRUE, chunks |-> <<>>, word_timings |-> <<>>]
       ELSE [raised |-> FALSE,
             chunks |-> GroupWords(scaled.word_timings, 1, <<>>, Zero, <<>>),
             word_timings |-> scaled.word_timings]

(***************************************************************************)
(* SubtitleService.generate_subtitle_clips and cleanup_temp_files          *)
(*                                                                         *)
(* A caption file is named by its place in the chunk list alone            *)
(* (OUTPUT_DIR/temp_subtitle_<i>.png), whichever instance writes it.  What *)
(* the libraries do with one chunk is the environment's choice:            *)
(*   "ok"          the image is drawn, saved and wrapped in an ImageClip   *)
(*   "no_image"    _create_subtitle_image caught an error and returned None*)
(*   "save_error"  Image.save raised and left no file                      *)
(*   "save_error_file_left"  Image.save raised after it created the file   *)
(*   "clip_error"  ImageClip, set_start or set_position raised             *)
(***************************************************************************)
Outcomes == {"ok", "no_image", "save_error", "save_error_file_left", "clip_error"}

\* line 127: the path of the caption file of the chunk at 0-based index i
temp_img_path(i) == <<"temp_subtitle", i>>

\* the file system after content was written to path
WriteFile(dk, path, content) ==
    [p \in (DOMAIN dk) \cup {path} |-> IF p = path THEN content ELSE dk[p]]

\* the file system after the paths gone were removed
RemoveFiles(dk, gone) == [p \in (DOMAIN dk) \ gone |-> dk[p]]

\* lines 131-132: the overlay of a chunk, reading the file at path
ImageClipOf(chunk, path) ==
    [path |-> path, start |-> chunk.start_time, duration |-> chunk.duration]

\* an exception leaves the loop of lines 124-133: nothing is returned
PilChunkFailed(subtitle_clips, tf, dk) ==
    [raised |-> TRUE, clips |-> <<>>, temp_files |-> tf, disk |-> dk]

RECURSIVE PilLoop(_, _, _, _, _, _, _)
\* the loop of lines 124-133 from the chunk at position i (0-based index i - 1)
PilLoop(chunks, outcome, i, subtitle_clips, tf, dk, who) ==
    IF i > Len(chunks)
    THEN [raised |-> FALSE, clips |-> subtitle_clips, temp_files |-> tf, disk |-> dk]
    ELSE LET path == temp_img_path(i - 1)
             saved == WriteFile(dk, path, [by |-> who, text |-> chunks[i].text])
         IN CASE outcome[i] = "no_image" ->
                    PilLoop(chunks, outcome, i + 1, subtitle_clips, tf, dk, who)
              [] outcome[i] = "save_error" ->
                    PilChunkFailed(subtitle_clips, tf, dk)
              [] outcome[i] = "save_error_file_left" ->
                    PilChunkFailed(subtitle_clips, tf, saved)
              [] outcome[i] = "clip_error" ->
                    PilChunkFailed(subtitle_clips, Append(tf, path), saved)
              [] OTHER ->
                    PilLoop(chunks, outcome, i + 1,
                            Append(subtitle_clips, ImageClipOf(chunks[i], path)),
                            Append(tf, path), saved, who)

_create_pil_subtitles(chunks, outcome, tf, dk, who) ==
    PilLoop(chunks, outcome, 1, <<>>, tf, dk, who)

\* the class defines _wrap_text, and no _wrap_text_for_width
HasWrapTextForWidth == FALSE

\* lines 143-157: line 145 calls self._wrap_text_for_width, which raises
\* AttributeError inside the try of the chunk, so the chunk is skipped
_create_text_subtitles(chunks) ==
    IF HasWrapTextForWidth
    THEN [i \in 1..Len(chunks) |->
            [path |-> <<"text", i - 1>>,
             start |-> chunks[i].start_time, duration |-> chunks[i].duration]]
    ELSE <<>>

\* a bug: the test of line 101 forgotten
BackendMissingNever(available) == FALSE

\* line 101
BackendMissing(available) == ~available

\* lines 96-116: what the call returns and what it leaves in temp_files and on
\* disk; have_moviepy and have_pil are the module's flags
generate_subtitle_clips(chunks, outcome, tf, dk, who, have_moviepy, have_pil) ==
    IF BackendMissing(have_moviepy)
    THEN [raised |-> FALSE, clips |-> <<>>, temp_files |-> tf, disk |-> dk]
    ELSE IF have_pil
         THEN LET r == _create_pil_subtitles(chunks, outcome, tf, dk, who)
              IN [raised |-> FALSE, clips |-> r.clips,
                  temp_files |-> r.temp_files, disk |-> r.disk]
         ELSE [raised |-> FALSE, clips |-> _create_text_subtitles(chunks),
               temp_files |-> tf, disk |-> dk]

RECURSIVE CleanupLoop(_, _, _)
\* the loop of lines 299-304; os.remove raises for the paths in failing
CleanupLoop(tf, dk, failing) ==
    IF tf = <<>> THEN dk
    ELSE CleanupLoop(Tail(tf),
                     IF tf[1] \in DOMAIN dk /\ tf[1] \notin failing
                     THEN RemoveFiles(dk, {tf[1]})
                     ELSE dk,
                     failing)

\* a bug: no try around os.remove, whose exception leaves the call
CleanupEscapesUncaught(tf, failing) == \E i \in 1..Len(tf) : tf[i] \in failing

\* lines 300-304: exists and remove are inside a try with a bare except, so
\* no exception of theirs leaves the loop
CleanupEscapes(tf, failing) == FALSE

\* lines 296-305
cleanup_temp_files(tf, dk, failing) ==
    IF CleanupEscapes(tf, failing)
    THEN [raised |-> TRUE, temp_files |-> tf, disk |-> dk]
    ELSE [raised |-> FALSE, temp_files |-> <<>>, disk |-> CleanupLoop(tf, dk, failing)]

(***************************************************************************)
(* VideoService.compose_video                                              *)
(***************************************************************************)
MAX_VIDEO_DURATION == 60

None == "None"

\* line 210: the output file
output_file == <<"news_video">>

\* line 177
TargetDuration(audio_duration) ==
    IF RLe(audio_duration, RInt(MAX_VIDEO_DURATION))
    THEN audio_duration
    ELSE RInt(MAX_VIDEO_DURATION)

\* a bug: the cleanup at the end of the try block instead of in a finally, so
\* that the return of the except handler skips it
AfterExceptNoFinally(error) == "done"

\* lines 235-237: the return None of the except handler runs the finally
\* block before it leaves compose_video
AfterExcept(error) == "finally"

\* lines 202-207; CompositeVideoClip raises if composite_fails
FinalVideo(subtitle_clips, composite_fails) ==
    IF subtitle_clips # <<>>
    THEN IF composite_fails
         THEN [raised |-> TRUE, video |-> None]
         ELSE [raised |-> FALSE,
               video |-> [composite |-> TRUE, captions |-> Len(subtitle_clips)]]
    ELSE [raised |-> FALSE, video |-> [composite |-> FALSE, captions |-> 0]]

(***************************************************************************)
(* The caption renderer: _load_font, _wrap_text, _get_line_height and      *)
(* _create_subtitle_image. A font is the metrics Pillow measures text      *)
(* with, in pixels: the advance of a narrow and of a wide glyph, and the   *)
(* height of the box of "Ay".                                              *)
(***************************************************************************)
SUBTITLE_FONTSIZE == 80

\* lines 237-254: a TrueType face of the list scaled to size (the metrics of
\* Arial and of DejaVu Sans in thousandths of the size), or, if none loads,
\* Pillow's default bitmap font, which has one size
_load_font(size) ==
    { [narrow |-> (278 * size) \div 1000, wide |-> (556 * size) \div 1000,
       ay_height |-> (926 * size) \div 1000],
      [narrow |-> (318 * size) \div 1000, wide |-> (613 * size) \div 1000,
       ay_height |-> (940 * size) \div 1000],
      [narrow |-> 6, wide |-> 6, ay_height |-> 11] }

NarrowGlyphs == {" ", "i", "l", "t", "f", "j", ".", ",", "!", ";", ":", "'"}

RECURSIVE TextWidth(_, _)
\* lines 169-170: bbox[2] - bbox[0] of draw.textbbox((0, 0), s, font=f)
TextWidth(s, f) ==
    IF s = <<>> THEN 0
    ELSE (IF Head(s) \in NarrowGlyphs THEN f.narrow ELSE f.wide)
         + TextWidth(Tail(s), f)

\* a bug: every line is taken to fit
FitsAlways(test_width, max_width) == TRUE

\* line 172
Fits(test_width, max_width) == test_width <= max_width

\* a bug: a word that does not fit on an empty line is not kept
CloseLineDropsWord(lines, current_line, w) ==
    IF current_line # <<>>
    THEN [lines |-> Append(lines, Join(current_line, <<" ">>)), current_line |-> <<w>>]
    ELSE [lines |-> lines, current_line |-> current_line]

\* lines 174-179: the word w did not fit behind current_line
CloseLine(lines, current_line, w) ==
    IF current_line # <<>>
    THEN [lines |-> Append(lines, Join(current_line, <<" ">>)), current_line |-> <<w>>]
    ELSE [lines |-> Append(lines, w), current_line |-> current_line]

RECURSIVE WrapLoop(_, _, _, _, _, _)
\* the loop of lines 167-179 from the word at position i, then lines 181-182
WrapLoop(words, i, lines, current_line, f, max_width) ==
    IF i > Len(words)
    THEN IF current_line # <<>>
         THEN Append(lines, Join(current_line, <<" ">>))
         ELSE lines
    ELSE LET test_line == Join(Append(current_line, words[i]), <<" ">>)
             test_width == TextWidth(test_line, f)
         IN IF Fits(test_width, max_width)
            THEN WrapLoop(words, i + 1, lines, Append(current_line, words[i]),
                          f, max_width)
            ELSE LET closed == CloseLine(lines, current_line, words[i])
                 IN WrapLoop(words, i + 1, closed.lines, closed.current_line,
                             f, max_width)

\* lines 160-184
_wrap_text(text, f, max_width) ==
    Join(WrapLoop(Split(text), 1, <<>>, <<>>, f, max_width), <<"\n">>)

RECURSIVE SplitOnFrom(_, _, _, _, _)
SplitOnFrom(s, sep, i, cur, acc) ==
    IF i > Len(s) THEN Append(acc, cur)
    ELSE IF s[i] = sep
         THEN SplitOnFrom(s, sep, i + 1, <<>>, Append(acc, cur))
         ELSE SplitOnFrom(s, sep, i + 1, Append(cur, s[i]), acc)

\* str.split(sep) with a separator of one character: empty fields are kept
SplitOn(s, sep) == SplitOnFrom(s, sep, 1, <<>>, <<>>)

\* lines 187-189
_get_line_height(f) == f.ay_height + 5

\* lines 192-234 (int(width * 0.9) and int(height * 0.2) are the floors of
\* 9 width / 10 and of 2 height / 10 for the sizes of VideoSizes): None without PIL or when a drawing call raises (draw_fails),
\* else the image: its size and the layout of the text drawn on it
_create_subtitle_image(text, width, height, f, have_pil, draw_fails) ==
    IF ~have_pil \/ draw_fails THEN None
    ELSE LET max_text_width == (width * 9) \div 10
             subtitle_height == (height * 2) \div 10
             wrapped_text == _wrap_text(text, f, max_text_width)
             lines == SplitOn(wrapped_text, "\n")
             line_height == _get_line_height(f)
             total_text_height == Len(lines) * line_height
         IN [width |-> width,
             subtitle_height |-> subtitle_height,
             max_text_width |-> max_text_width,
             wrapped_text |-> wrapped_text,
             lines |-> lines,
             line_height |-> line_height,
             total_text_height |-> total_text_height,
             y_start |-> (subtitle_height - total_text_height) \div 2]

(***************************************************************************)
(* TTSService.generate_tts (newscrypt/services/tts_service.py) and its     *)
(* four provider methods. A call of a provider's library ends "ok",        *)
(* "raises" or, for Azure, with a result whose reason is "not_completed".  *)
(***************************************************************************)
\* lines 55-60, by method_name
methods == <<"ElevenLabs", "OpenAI TTS", "Azure Neural Voices", "Google TTS">>

\* lines 83-86: n is the value of random.randint(1000, 9999)
_generate_audio_path(n, extension) == <<"audio", n, extension>>

\* a bug: no try around the call of the library
ProviderCallNoTry(configured, outcome, n, extension) ==
    IF ~configured
    THEN [raised |-> FALSE, ok |-> FALSE, path |-> None, ended |-> "unavailable"]
    ELSE IF outcome = "ok"
         THEN [raised |-> FALSE, ok |-> TRUE,
               path |-> _generate_audio_path(n, extension), ended |-> "ok"]
         ELSE [raised |-> outcome = "raises", ok |-> FALSE, path |-> None,
               ended |-> outcome]

\* the shape the four provider methods share: None when the provider is not
\* configured, else the call of the library in a try whose except returns None
ProviderCall(configured, outcome, n, extension) ==
    IF ~configured
    THEN [raised |-> FALSE, ok |-> FALSE, path |-> None, ended |-> "unavailable"]
    ELSE IF outcome = "ok"
         THEN [raised |-> FALSE, ok |-> TRUE,
               path |-> _generate_audio_path(n, extension), ended |-> "ok"]
         ELSE [raised |-> FALSE, ok |-> FALSE, path |-> None, ended |-> outcome]

\* lines 114-136
_generate_tts_elevenlabs(configured, outcome, n) ==
    ProviderCall(configured, outcome, n, "mp3")

\* lines 89-111
_generate_tts_openai(configured, outcome, n) ==
    ProviderCall(configured, outcome, n, "mp3")

\* lines 139-171
_generate_tts_azure(configured, outcome, n) ==
    ProviderCall(configured, outcome, n, "wav")

\* lines 174-190
_generate_tts_gtts(configured, outcome, n) ==
    ProviderCall(configured, outcome, n, "mp3")

\* line 65: method_func(script_text) for the method named m
method_func(m, configured, outcome, n) ==
    CASE m = "ElevenLabs" -> _generate_tts_elevenlabs(configured, outcome, n)
      [] m = "OpenAI TTS" -> _generate_tts_openai(configured, outcome, n)
      [] m = "Azure Neural Voices" -> _generate_tts_azure(configured, outcome, n)
      [] OTHER -> _generate_tts_gtts(configured, outcome, n)

\* how the library of method m can end when it is reached
ProviderOutcomes(m, configured) ==
    IF ~configured THEN {"unavailable"}
    ELSE IF m = "Azure Neural Voices" THEN {"ok", "raises", "not_completed"}
    ELSE {"ok", "raises"}

\* the values of random.randint(1000, 9999) the model draws
RandomSuffixes == {1000, 9999}

(***************************************************************************)
(* The inputs the specifications draw from.                                *)
(***************************************************************************)
\* tokens of a narration: a function word, a word closing a sentence, a long
\* capitalised word
Vocabulary ==
    { <<"t", "h", "e">>,
      <<"t", "o", "d", "a", "y", ".">>,
      <<"B", "r", "e", "a", "k", "i", "n", "g">> }

\* "Breaking news today. Markets rally."
ScenarioText ==
    Join(<< <<"B", "r", "e", "a", "k", "i", "n", "g">>, <<"n", "e", "w", "s">>,
            <<"t", "o", "d", "a", "y", ".">>, <<"M", "a", "r", "k", "e", "t", "s">>,
            <<"r", "a", "l", "l", "y", ".">> >>, <<" ">>)

\* "the U.S the yes, the": punctuation inside a word and a comma
PunctuatedText ==
    Join(<< <<"t", "h", "e">>, <<"U", ".", "S">>, <<"t", "h", "e">>,
            <<"y", "e", "s", ",">>, <<"t", "h", "e">> >>, <<" ">>)

WordLists(n) == UNION { [1..k -> Vocabulary] : k \in 0..n }

\* the words with a tab before, two spaces between and a newline after
Padded(ws) == <<"\t">> \o Join(ws, <<" ", " ">>) \o <<"\n">>

Texts ==
    { Join(ws, <<" ">>) : ws \in WordLists(MaxWords) }
    \cup { Padded(ws) : ws \in WordLists(MaxPaddedWords) }
    \cup { ScenarioText, PunctuatedText, <<" ">>, <<"?">>, <<".", ".", ".">> \o <<" ">> \o <<"t", "v">> }

Durations == { Rat(k * k, 2) : k \in 0..MaxDurationStep }

TokenAlphabet == {"a", "E", "t", "n", ".", "\""}

Tokens ==
    UNION { [1..k -> TokenAlphabet] : k \in 1..MaxTokenLen }
    \cup Vocabulary
    \cup { <<"n", "e", "w", "s">>, <<"U", ".", "S">>,
           <<"r", "h", "y", "t", "h", "m", "s", "!">>,
           <<"M", "a", "r", "k", "e", "t", "s">>, <<"r", "a", "l", "l", "y", ".">> }

\* the words of the captions: a short word, a usual one, one longer than
\* half a line and one longer than a line of the 1080 pixel wide video in the
\* widest font
RenderVocabulary ==
    { <<"a">>,
      <<"n", "e", "w", "s">>,
      <<"a", "n", "n", "o", "u", "n", "c", "e", "m", "e", "n", "t", "s">>,
      <<"e", "l", "e", "c", "t", "r", "o", "e", "n", "c", "e", "p", "h", "a", "l",
        "o", "g", "r", "a", "p", "h", "s">> }

\* the texts a chunk can have: up to SUBTITLE_MAX_WORDS_PER_CHUNK words joined
\* by single spaces; and two texts that are no chunk texts
RenderTexts ==
    { Join(ws, <<" ">>) :
        ws \in UNION { [1..k -> RenderVocabulary] :
                         k \in 0..SUBTITLE_MAX_WORDS_PER_CHUNK } }
    \cup { <<"a", " ", " ", "n", "e", "w", "s">>, <<" ", "a", "\n">> }

\* the default size of the video and a smaller one
VideoSizes == { <<VIDEO_WIDTH, VIDEO_HEIGHT>>, <<720, 1280>> }

\* the narrations of the pipeline: none, one chunk of two words, and
\* MaxChunks sentences of one word, each closing a chunk
PipelineTexts ==
    { <<>>, <<"t", "h", "e", " ", "t", "v">>,
      Join([i \in 1..MaxChunks |-> <<"t", "o", "d", "a", "y", ".">>], <<" ">>) }

\* a short narration and one longer than MAX_VIDEO_DURATION
PipelineDurations == { RInt(2), RInt(MAX_VIDEO_DURATION + 30) }

(***************************************************************************)
(* States in which a part of the program has not run.                      *)
(***************************************************************************)
EstimatorIdle ==
    /\ word = <<>>
    /\ est_call = "none"
    /\ est_duration = Zero
    /\ est_before_pause = Zero

RendererIdle ==
    /\ render_text = <<>>
    /\ video_width = VIDEO_WIDTH
    /\ video_height = VIDEO_HEIGHT
    /\ font = [narrow |-> 0, wide |-> 0, ay_height |-> 0]
    /\ render_call = "none"
    /\ subtitle_image = None

ChunkerIdle ==
    /\ script_text = <<>>
    /\ total_duration = Zero
    /\ chunk_call = "none"
    /\ subtitle_chunks = <<>>
    /\ call_word_timings = <<>>

\* both services constructed (temp_files = []), nothing called, no caption or
\* output file on disk
PipelineFresh ==
    /\ temp_files = [s \in Services |-> <<>>]
    /\ disk = <<>>
    /\ clips = [s \in Services |-> <<>>]
    /\ gen_call = [s \in Services |-> "none"]
    /\ gen_outcome = [s \in Services |-> <<>>]
    /\ cleanup_call = [s \in Services |-> "none"]
    /\ compose_pc = "idle"
    /\ compose_chunks = <<>>
    /\ final_video = None
    /\ compose_error = "none"
    /\ compose_result = None

\* generate_tts was not called; no provider is configured
TtsIdle ==
    /\ tts_script = <<>>
    /\ tts_configured = [m \in {"ElevenLabs", "OpenAI TTS", "Azure Neural Voices",
                                 "Google TTS"} |-> FALSE]
    /\ tts_pc = "none"
    /\ tts_log = <<>>
    /\ tts_result = None

PipelineIdle ==
    /\ moviepy_available = TRUE
    /\ pil_available = TRUE
    /\ video_moviepy_available = TRUE
    /\ PipelineFresh

(***************************************************************************)
(* The chunker applied to every text and duration.                         *)
(***************************************************************************)
InitChunker ==
    /\ script_text \in Texts
    /\ total_duration \in Durations
    /\ chunk_call = "none"
    /\ subtitle_chunks = <<>>
    /\ call_word_timings = <<>>
    /\ EstimatorIdle
    /\ RendererIdle
    /\ PipelineIdle
    /\ TtsIdle

\* NewScrypt.create_subtitle_chunks (main.py): one call of the chunker
CreateSubtitleChunks ==
    /\ chunk_call = "none"
    /\ \E r \in {create_subtitle_chunks(script_text, total_duration)} :
          /\ chunk_call' = IF r.raised THEN "raised" ELSE "returned"
          /\ subtitle_chunks' = r.chunks
          /\ call_word_timings' = r.word_timings
    /\ UNCHANGED <<tts_vars, renderer_vars, script_text, total_duration, estimator_vars, pipeline_vars>>

NextChunker == CreateSubtitleChunks

SpecChunker == InitChunker /\ [][NextChunker]_vars

(***************************************************************************)
(* The estimator applied to every token.                                   *)
(***************************************************************************)
InitEstimator ==
    /\ word \in Tokens
    /\ est_call = "none"
    /\ est_duration = Zero
    /\ est_before_pause = Zero
    /\ ChunkerIdle
    /\ RendererIdle
    /\ PipelineIdle
    /\ TtsIdle

EstimateWordDuration ==
    /\ est_call = "none"
    /\ est_duration' = _estimate_word_duration(word)
    /\ est_before_pause' = IF CleanWord(word) = <<>> THEN Zero
                           ELSE DurationBeforePause(CleanWord(word))
    /\ est_call' = "returned"
    /\ UNCHANGED <<tts_vars, renderer_vars, word, chunker_vars, pipeline_vars>>

NextEstimator == EstimateWordDuration

SpecEstimator == InitEstimator /\ [][NextEstimator]_vars

(***************************************************************************)
(* The renderer applied to every chunk text, video size and font.          *)
(***************************************************************************)
InitRenderer ==
    /\ render_text \in RenderTexts
    /\ \E size \in VideoSizes : video_width = size[1] /\ video_height = size[2]
    /\ font \in _load_font(SUBTITLE_FONTSIZE)
    /\ render_call = "none"
    /\ subtitle_image = None
    /\ ChunkerIdle
    /\ EstimatorIdle
    /\ PipelineIdle
    /\ TtsIdle

\* one call of _create_subtitle_image
CreateSubtitleImage ==
    /\ render_call = "none"
    /\ \E draw_fails \in BOOLEAN :
          /\ subtitle_image' = _create_subtitle_image(render_text, video_width,
                                   video_height, font, pil_available, draw_fails)
          /\ render_call' = IF ~pil_available \/ draw_fails
                            THEN "returned_none" ELSE "returned"
    /\ UNCHANGED <<tts_vars, render_text, video_width, video_height, font, chunker_vars,
                   estimator_vars, pipeline_vars>>

NextRenderer == CreateSubtitleImage

SpecRenderer == InitRenderer /\ [][NextRenderer]_vars

(***************************************************************************)
(* generate_tts on every script and provider configuration.                *)
(***************************************************************************)
\* no script, a script, and a script of one space
TtsScripts == { <<>>, <<"n", "e", "w", "s">>, <<" ">> }

InitTts ==
    /\ tts_script \in TtsScripts
    /\ tts_configured \in [{methods[i] : i \in 1..Len(methods)} -> BOOLEAN]
    /\ tts_pc = "none"
    /\ tts_log = <<>>
    /\ tts_result = None
    /\ ChunkerIdle
    /\ EstimatorIdle
    /\ RendererIdle
    /\ PipelineIdle

\* lines 52-60: the empty script returns None at once
GenerateTtsStart ==
    /\ tts_pc = "none"
    /\ tts_pc' = IF tts_script = <<>> THEN "returned_none" ELSE "trying"
    /\ UNCHANGED <<tts_script, tts_configured, tts_log, tts_result,
                   chunker_vars, estimator_vars, renderer_vars, pipeline_vars>>

\* lines 63-71: one turn of the loop, for the method after those tried
TryNextMethod ==
    /\ tts_pc = "trying"
    /\ Len(tts_log) < Len(methods)
    /\ \E m \in {methods[Len(tts_log) + 1]} :
       \E outcome \in ProviderOutcomes(m, tts_configured[m]) :
       \E n \in (IF outcome = "ok" THEN RandomSuffixes ELSE {1000}) :
       \E result \in {method_func(m, tts_configured[m], outcome, n)} :
          /\ tts_log' = Append(tts_log, [method |-> m, ended |-> result.ended])
          /\ tts_pc' = IF result.raised THEN "raised"
                       ELSE IF result.ok THEN "returned" ELSE "trying"
          /\ tts_result' = IF result.ok THEN result.path ELSE tts_result
    /\ UNCHANGED <<tts_script, tts_configured,
                   chunker_vars, estimator_vars, renderer_vars, pipeline_vars>>

\* lines 73-74: every method returned None
AllMethodsFailed ==
    /\ tts_pc = "trying"
    /\ Len(tts_log) = Len(methods)
    /\ tts_pc' = "returned_none"
    /\ tts_result' = None
    /\ UNCHANGED <<tts_script, tts_configured, tts_log,
                   chunker_vars, estimator_vars, renderer_vars, pipeline_vars>>

NextTts == GenerateTtsStart \/ TryNextMethod \/ AllMethodsFailed

SpecTts == InitTts /\ [][NextTts]_vars

(***************************************************************************)
(* The pipeline: the facade's own SubtitleService ("subtitles") called     *)
(* directly, and compose_video with the SubtitleService of the             *)
(* VideoService ("video").                                                 *)
(***************************************************************************)
\* Each module sets its flags with an import of its own (subtitle_service.py
\* lines 6-16, video_service.py lines 13-23), so each flag is either value.
Init ==
    /\ script_text \in PipelineTexts
    /\ total_duration \in PipelineDurations
    /\ chunk_call = "none"
    /\ subtitle_chunks = <<>>
    /\ call_word_timings = <<>>
    /\ EstimatorIdle
    /\ RendererIdle
    /\ TtsIdle
    /\ moviepy_available \in BOOLEAN
    /\ pil_available \in BOOLEAN
    /\ video_moviepy_available \in BOOLEAN
    /\ PipelineFresh

\* the outcomes that raise out of the loop of _create_pil_subtitles
Raising == {"save_error", "save_error_file_left", "clip_error"}

\* compose_video is a synchronous call of a single-threaded program: the
\* facade's other calls come before it or after it
NotComposing == compose_pc \in {"idle", "done"}

\* the library outcomes the environment may choose for a list of chunks. Only
\* the PIL path reaches the libraries, and a chunk behind one whose outcome
\* raises is never reached: the libraries would have served it ("ok").
OutcomeChoices(chunks) ==
    IF moviepy_available /\ pil_available
    THEN { o \in [1..Len(chunks) -> Outcomes] :
             \A i \in 1..Len(chunks) :
                (\E j \in 1..(i - 1) : o[j] \in Raising) => o[i] = "ok" }
    ELSE {[i \in 1..Len(chunks) |-> "ok"]}

\* NewScrypt.create_subtitle_clips (main.py): generate_subtitle_clips on the
\* chunks that create_subtitle_chunks returned
GenerateSubtitleClips ==
    /\ NotComposing
    /\ chunk_call = "returned"
    /\ Len(temp_files["subtitles"]) + Len(subtitle_chunks) <= MaxTempFiles
    /\ \E outcome \in OutcomeChoices(subtitle_chunks) :
       \E r \in {generate_subtitle_clips(subtitle_chunks, outcome,
                     temp_files["subtitles"], disk, "subtitles",
                     moviepy_available, pil_available)} :
          /\ gen_call' = [gen_call EXCEPT
                             !["subtitles"] = IF r.raised THEN "raised" ELSE "returned"]
          /\ gen_outcome' = [gen_outcome EXCEPT !["subtitles"] = outcome]
          /\ clips' = [clips EXCEPT !["subtitles"] = r.clips]
          /\ temp_files' = [temp_files EXCEPT !["subtitles"] = r.temp_files]
          /\ disk' = r.disk
    /\ cleanup_call' = [cleanup_call EXCEPT !["subtitles"] = "none"]
    /\ UNCHANGED <<tts_vars, renderer_vars, chunker_vars, estimator_vars, flags, compose_vars>>

\* NewScrypt.cleanup_subtitle_temp (main.py): cleanup_temp_files
CleanupTempFiles ==
    /\ NotComposing
    /\ \E failing \in SUBSET {temp_files["subtitles"][i] :
                                 i \in 1..Len(temp_files["subtitles"])} :
       \E r \in {cleanup_temp_files(temp_files["subtitles"], disk, failing)} :
          /\ temp_files' = [temp_files EXCEPT !["subtitles"] = r.temp_files]
          /\ disk' = r.disk
          /\ cleanup_call' = [cleanup_call EXCEPT
                                 !["subtitles"] = IF r.raised THEN "raised"
                                                  ELSE "returned"]
    /\ UNCHANGED <<tts_vars, renderer_vars, chunker_vars, estimator_vars, flags, compose_vars,
                   clips, gen_call, gen_outcome>>

\* compose_video, lines 122-195: the early returns, then loading and trimming
\* the clips and the audio, which the libraries may fail
ComposeLoad ==
    /\ compose_pc = "idle"
    /\ \/ /\ ~video_moviepy_available \/ script_text = <<>>
          /\ compose_pc' = "done"
          /\ compose_error' = "rejected"
       \/ /\ video_moviepy_available /\ script_text # <<>>
          /\ \E found \in {"missing_files", "load_error", "loaded"} :
                /\ compose_pc' = CASE found = "missing_files" -> "done"
                                   [] found = "load_error" -> "except"
                                   [] OTHER -> "loaded"
                /\ compose_error' = CASE found = "missing_files" -> "rejected"
                                      [] found = "load_error" -> "load"
                                      [] OTHER -> "none"
    /\ UNCHANGED <<tts_vars, renderer_vars, chunker_vars, estimator_vars, flags, subtitle_vars,
                   compose_chunks, final_video, compose_result>>

\* lines 197-207: the chunks, the overlays and the final video
ComposeSubtitles ==
    /\ compose_pc = "loaded"
    /\ \E made \in {create_subtitle_chunks(script_text, TargetDuration(total_duration))} :
       \E outcome \in OutcomeChoices(made.chunks) :
       \E r \in {generate_subtitle_clips(made.chunks, outcome, temp_files["video"],
                     disk, "video", moviepy_available, pil_available)} :
       \E final \in {FinalVideo(r.clips, fails) :
                       fails \in IF r.clips # <<>> THEN BOOLEAN ELSE {FALSE}} :
          /\ compose_chunks' = made.chunks
          /\ gen_call' = [gen_call EXCEPT
                             !["video"] = IF made.raised THEN "none"
                                          ELSE IF r.raised THEN "raised" ELSE "returned"]
          /\ gen_outcome' = [gen_outcome EXCEPT !["video"] = outcome]
          /\ clips' = [clips EXCEPT !["video"] = IF made.raised THEN <<>> ELSE r.clips]
          /\ temp_files' = [temp_files EXCEPT
                               !["video"] = IF made.raised THEN @ ELSE r.temp_files]
          /\ disk' = IF made.raised THEN disk ELSE r.disk
          /\ final_video' = IF made.raised \/ r.raised \/ final.raised
                            THEN None ELSE final.video
          /\ compose_pc' = IF made.raised \/ r.raised \/ final.raised
                           THEN "except" ELSE "composed"
          /\ compose_error' = IF made.raised \/ r.raised \/ final.raised
                              THEN "subtitles" ELSE "none"
    /\ UNCHANGED <<tts_vars, renderer_vars, chunker_vars, estimator_vars, flags, compose_result, cleanup_call>>

\* lines 209-225: write_videofile writes the output file, or raises and may
\* leave a part of it
ComposeWrite ==
    /\ compose_pc = "composed"
    /\ \E wrote \in {"written", "write_error", "write_error_file_left"} :
          /\ disk' = IF wrote = "write_error" THEN disk
                     ELSE WriteFile(disk, output_file,
                                    [by |-> "video", text |-> <<>>])
          /\ compose_pc' = IF wrote = "written" THEN "finally" ELSE "except"
          /\ compose_error' = IF wrote = "written" THEN "none" ELSE "write"
          /\ compose_result' = IF wrote = "written" THEN output_file ELSE None
    /\ UNCHANGED <<tts_vars, renderer_vars, chunker_vars, estimator_vars, flags, temp_files, clips,
                   gen_call, gen_outcome, cleanup_call, compose_chunks, final_video>>

\* lines 227-235: the output file removed if it is there (a failing removal is
\* swallowed), None returned
ComposeExcept ==
    /\ compose_pc = "except"
    /\ \E removed \in BOOLEAN :
          disk' = IF removed THEN RemoveFiles(disk, {output_file}) ELSE disk
    /\ compose_result' = None
    /\ compose_pc' = AfterExcept(compose_error)
    /\ UNCHANGED <<tts_vars, renderer_vars, chunker_vars, estimator_vars, flags, temp_files, clips,
                   gen_call, gen_outcome, cleanup_call, compose_chunks, final_video,
                   compose_error>>

\* lines 237-274: the clips closed, then cleanup_temp_files, an exception of
\* which lines 271-272 would swallow
ComposeFinally ==
    /\ compose_pc = "finally"
    /\ \E failing \in SUBSET {temp_files["video"][i] : i \in 1..Len(temp_files["video"])} :
       \E r \in {cleanup_temp_files(temp_files["video"], disk, failing)} :
          /\ temp_files' = [temp_files EXCEPT !["video"] = r.temp_files]
          /\ disk' = r.disk
          /\ cleanup_call' = [cleanup_call EXCEPT
                                 !["video"] = IF r.raised THEN "raised" ELSE "returned"]
    /\ compose_pc' = "done"
    /\ UNCHANGED <<tts_vars, renderer_vars, chunker_vars, estimator_vars, flags, clips, gen_call, gen_outcome,
                   compose_chunks, final_video, compose_error, compose_result>>

Next ==
    \/ CreateSubtitleChunks
    \/ GenerateSubtitleClips
    \/ CleanupTempFiles
    \/ ComposeLoad
    \/ ComposeSubtitles
    \/ ComposeWrite
    \/ ComposeExcept
    \/ ComposeFinally

Spec == Init /\ [][Next]_vars

(***************************************************************************)
(* What the claims read off a state.                                       *)
(***************************************************************************)
\* the whitespace-tokenized words of the text
Words == Split(script_text)

Returned == chunk_call = "returned"

NChunks == Len(subtitle_chunks)

\* the words of chunk k, read back from its text
ChunkWords(k) == Split(subtitle_chunks[k].text)

RECURSIVE SumDurations(_)
SumDurations(chunks) ==
    IF chunks = <<>> THEN Zero
    ELSE RAdd(chunks[1].duration, SumDurations(Tail(chunks)))

RECURSIVE SumEstimates(_)
\* the sum of the estimator's durations of the words ws
SumEstimates(ws) ==
    IF ws = <<>> THEN Zero
    ELSE RAdd(_estimate_word_duration(ws[1]), SumEstimates(Tail(ws)))

RECURSIVE WordsBefore(_)
\* the number of words in the chunks before chunk k
WordsBefore(k) == IF k <= 1 THEN 0 ELSE WordsBefore(k - 1) + Len(ChunkWords(k - 1))

RECURSIVE ConcatChunkWords(_)
\* the words of chunks 1..k, in order
ConcatChunkWords(k) ==
    IF k = 0 THEN <<>> ELSE ConcatChunkWords(k - 1) \o ChunkWords(k)


(***************************************************************************)
(* C1-C7: create_subtitle_chunks, under SpecChunker.                       *)
(***************************************************************************)
\* C1: for a text with at least one word and total_duration > 0, the chunk
\* durations sum to total_duration and the last chunk ends at total_duration.
C1_DurationsSumToTotal ==
    (Returned /\ Words # <<>> /\ RGt(total_duration, Zero)) =>
        /\ NChunks >= 1
        /\ SumDurations(subtitle_chunks) = total_duration
        /\ subtitle_chunks[NChunks].end_time = total_duration

\* several chunks whose raw estimates do not sum to the narration's duration
C1_Witness ==
    /\ Returned
    /\ NChunks >= 3
    /\ RGt(total_duration, Zero)
    /\ SumEstimates(Words) # total_duration

\* C2: every chunk has start_time <= end_time and duration = end_time -
\* start_time, the first chunk starts at 0, and each chunk starts where the
\* previous one ended (so start times never decrease).
C2_ChunksContiguous ==
    Returned =>
        /\ \A k \in 1..NChunks :
              /\ RLe(subtitle_chunks[k].start_time, subtitle_chunks[k].end_time)
              /\ subtitle_chunks[k].duration
                    = RSub(subtitle_chunks[k].end_time, subtitle_chunks[k].start_time)
        /\ NChunks >= 1 => subtitle_chunks[1].start_time = Zero
        /\ \A k \in 1..(NChunks - 1) :
              /\ subtitle_chunks[k + 1].start_time = subtitle_chunks[k].end_time
              /\ RLe(subtitle_chunks[k].start_time, subtitle_chunks[k + 1].start_time)

\* three chunks of positive duration, the middle one of several words
C2_Witness ==
    /\ Returned
    /\ NChunks >= 3
    /\ Len(ChunkWords(2)) >= 2
    /\ \A k \in 1..NChunks : RGt(subtitle_chunks[k].duration, Zero)

\* C3: the chunks partition the words of the text: every chunk holds at least
\* one word, and the chunk texts joined by single spaces are the words of the
\* text, in order, joined by single spaces.
C3_ChunksPartitionWords ==
    Returned =>
        /\ \A k \in 1..NChunks : Len(ChunkWords(k)) >= 1
        /\ ConcatChunkWords(NChunks) = Words
        /\ Join([k \in 1..NChunks |-> subtitle_chunks[k].text], <<" ">>)
              = Join(Words, <<" ">>)

\* a text with irregular whitespace, cut into two chunks
C3_Witness ==
    /\ Returned
    /\ NChunks = 2
    /\ script_text # Join(Words, <<" ">>)

\* C4: no chunk holds more than SUBTITLE_MAX_WORDS_PER_CHUNK words.
C4_MaxWordsPerChunk ==
    Returned =>
        \A k \in 1..NChunks : Len(ChunkWords(k)) <= SUBTITLE_MAX_WORDS_PER_CHUNK

\* a chunk closed by the word count alone: it is full, shorter than the
\* threshold, ends without punctuation and is followed by another chunk
C4_Witness ==
    /\ Returned
    /\ NChunks >= 2
    /\ Len(ChunkWords(1)) = SUBTITLE_MAX_WORDS_PER_CHUNK
    /\ RLt(subtitle_chunks[1].duration, RInt(SUBTITLE_CHUNK_DURATION))
    /\ ~ContainsAny(subtitle_chunks[1].text, Punctuation)

\* C5 as stated: every chunk of two or more words has duration <= the
\* threshold SUBTITLE_CHUNK_DURATION.
C5_Original ==
    Returned =>
        \A k \in 1..NChunks :
            Len(ChunkWords(k)) >= 2 =>
                RLe(subtitle_chunks[k].duration, RInt(SUBTITLE_CHUNK_DURATION))

\* C5 amended: a chunk of two or more words passes the threshold only with its
\* last word: the span from the chunk's start_time to the end_time of its
\* second-to-last word is below SUBTITLE_CHUNK_DURATION.
C5_OvershootOnlyByLastWord ==
    Returned =>
        \A k \in 1..NChunks :
            Len(ChunkWords(k)) >= 2 =>
                RLt(RSub(call_word_timings[WordsBefore(k) + Len(ChunkWords(k)) - 1].end_time,
                         subtitle_chunks[k].start_time),
                    RInt(SUBTITLE_CHUNK_DURATION))

\* a chunk of several words that lasts longer than the threshold
C5_Witness ==
    /\ Returned
    /\ \E k \in 1..NChunks :
          /\ Len(ChunkWords(k)) >= 3
          /\ RGt(subtitle_chunks[k].duration, RInt(SUBTITLE_CHUNK_DURATION))

C7_NoErrorOnDegenerateInput ==
    /\ chunk_call # "raised"
    /\ (Returned /\ Words = <<>>) => subtitle_chunks = <<>>
    /\ (Returned /\ Words # <<>> /\ total_duration = Zero) => subtitle_chunks # <<>>

\* a whitespace-only text with a positive total_duration
C7_Witness ==
    /\ Returned
    /\ script_text # <<>>
    /\ Words = <<>>
    /\ RGt(total_duration, Zero)
    /\ subtitle_chunks = <<>>

(***************************************************************************)
(* C8: _estimate_word_duration, under SpecEstimator.                       *)
(***************************************************************************)
\* C8: the estimate of every token is greater than 0.
C8_EstimatePositive ==
    est_call = "returned" => RGt(est_duration, Zero)

\* a token made only of punctuation gets the fixed minimum of 0.1 s
C8_Witness ==
    /\ est_call = "returned"
    /\ word # <<>>
    /\ \A i \in 1..Len(word) : word[i] \in StripChars
    /\ est_duration = Rat(1, 10)

(***************************************************************************)
(* C9-C10: generate_subtitle_clips and compose_video, under Spec.          *)
(***************************************************************************)
\* the chunks the last generate_subtitle_clips call of instance s was given
ChunksGiven(s) == IF s = "subtitles" THEN subtitle_chunks ELSE compose_chunks

RECURSIVE OverlaysOfServed(_, _, _)
\* the overlays, in chunk order, of the chunks from position i on whose own
\* image, file and clip the libraries served
OverlaysOfServed(chunks, outcome, i) ==
    IF i > Len(chunks) THEN <<>>
    ELSE (IF outcome[i] = "ok"
          THEN <<ImageClipOf(chunks[i], temp_img_path(i - 1))>>
          ELSE <<>>)
         \o OverlaysOfServed(chunks, outcome, i + 1)

\* C9 as stated: with the PIL path, a failure while producing the overlay of
\* one chunk (image, save or clip) skips that chunk only: the call returns the
\* overlays of all the other chunks.
C9_Original ==
    \A s \in Services :
        (gen_call[s] = "returned" /\ moviepy_available /\ pil_available) =>
            clips[s] = OverlaysOfServed(ChunksGiven(s), gen_outcome[s], 1)

\* C10: with MoviePy unavailable, generate_subtitle_clips never raises, returns
\* the empty list, records no temp file and writes no caption file; and
\* compose_video, once its overlay list is empty, has a final video without
\* captions and fails only if the library fails to write it.
C10_NoCaptionsWhenBackendMissing ==
    /\ ~moviepy_available =>
          /\ \A s \in Services :
                /\ gen_call[s] # "raised"
                /\ clips[s] = <<>>
                /\ temp_files[s] = <<>>
          /\ DOMAIN disk \subseteq {output_file}
    /\ (gen_call["video"] = "returned" /\ clips["video"] = <<>>) =>
          /\ final_video = [composite |-> FALSE, captions |-> 0]
          /\ compose_error \in {"none", "write"}
          /\ compose_pc \in {"composed", "except", "finally", "done"}
    /\ (compose_pc = "done" /\ compose_error = "none") => compose_result = output_file

\* MoviePy is unavailable to the subtitle service: both instances were given
\* several chunks and returned no overlay, and compose_video wrote the video
C10_Witness ==
    /\ ~moviepy_available
    /\ gen_call["subtitles"] = "returned"
    /\ Len(subtitle_chunks) >= 2
    /\ gen_call["video"] = "returned"
    /\ Len(compose_chunks) >= 2
    /\ compose_pc = "done"
    /\ compose_result = output_file
    /\ output_file \in DOMAIN disk

(***************************************************************************)
(* C11-C14: the overlays and the temp caption files, under Spec.           *)
(***************************************************************************)
\* the overlays of the chunks of instance s that were rendered, saved and
\* wrapped: the PIL path is the only one that renders a chunk (the text path
\* fails at line 145 for every chunk, line 101 returns before any rendering)
RenderedOverlays(s) ==
    IF moviepy_available /\ pil_available
    THEN OverlaysOfServed(ChunksGiven(s), gen_outcome[s], 1)
    ELSE <<>>

\* C11 as stated: generate_subtitle_clips returns the overlays of the
\* successfully rendered chunks, in chunk order, each with the start_time and
\* the duration of its chunk, and never more overlays than chunks.
C11_Original ==
    \A s \in Services :
        gen_call[s] # "none" =>
            /\ Len(clips[s]) <= Len(ChunksGiven(s))
            /\ Len(clips[s]) = Len(RenderedOverlays(s))
            /\ \A k \in 1..Len(clips[s]) :
                  /\ clips[s][k].start = RenderedOverlays(s)[k].start
                  /\ clips[s][k].duration = RenderedOverlays(s)[k].duration

\* the paths instance s has recorded in self.temp_files
Recorded(s) == {temp_files[s][i] : i \in 1..Len(temp_files[s])}

\* C12: cleanup_temp_files never raises, whether no file was ever recorded,
\* recorded files are missing or removals fail; after a call the temp-file
\* list of the instance is empty; and a second call in a row changes neither
\* the list nor the files.
C12_CleanupSafeAndIdempotent ==
    \A s \in Services :
        /\ cleanup_call[s] # "raised"
        /\ cleanup_call[s] = "returned" => temp_files[s] = <<>>
        /\ \A failing \in SUBSET Recorded(s) :
              LET once == cleanup_temp_files(temp_files[s], disk, failing)
              IN /\ ~once.raised
                 /\ once.temp_files = <<>>
                 /\ \A failing_again \in SUBSET DOMAIN once.disk :
                       cleanup_temp_files(once.temp_files, once.disk, failing_again)
                           = once

\* the facade's instance made two overlays and then cleaned up; the removal of
\* the first caption file failed and the file is still there, the second is
\* gone, and the list is empty
C12_Witness ==
    /\ cleanup_call["subtitles"] = "returned"
    /\ Len(clips["subtitles"]) = 2
    /\ temp_files["subtitles"] = <<>>
    /\ clips["subtitles"][1].path \in DOMAIN disk
    /\ disk[clips["subtitles"][1].path].by = "subtitles"
    /\ clips["subtitles"][2].path \notin DOMAIN disk

\* the caption files the overlays of instance s read are on disk as the
\* instance wrote them
CaptionFilesIntact(s) ==
    \A k \in 1..Len(clips[s]) :
        /\ clips[s][k].path \in DOMAIN disk
        /\ disk[clips[s][k].path].by = s

\* C13: whenever compose_video has returned after it started
\* generate_subtitle_clips (the video written, overlay creation failed or the
\* write failed), cleanup_temp_files was called; and it is called only at the
\* end of the call, after the write finished or failed or was never reached:
\* from the overlays' creation until then their caption files are on disk.
C13_CleanupOnEveryExitAfterWrite ==
    /\ (compose_pc = "done" /\ gen_call["video"] # "none") =>
           cleanup_call["video"] # "none"
    /\ cleanup_call["video"] # "none" =>
           /\ compose_pc = "done"
           /\ \/ compose_error = "none" /\ compose_result = output_file
              \/ compose_error \in {"load", "subtitles", "write"} /\ compose_result = None
    /\ compose_pc \in {"composed", "except", "finally"} => CaptionFilesIntact("video")

\* compose_video made overlays, the write of the video failed, and the call
\* returned None after the cleanup removed the caption files
C13_Witness ==
    /\ compose_pc = "done"
    /\ compose_error = "write"
    /\ compose_result = None
    /\ Len(clips["video"]) = 2
    /\ cleanup_call["video"] = "returned"
    /\ temp_files["video"] = <<>>
    /\ \A k \in 1..2 : clips["video"][k].path \notin DOMAIN disk

\* C14 as stated: the two SubtitleService instances share no mutable state:
\* as long as an instance has not called its own cleanup_temp_files since its
\* last generate_subtitle_clips, every caption file its overlays read is on
\* disk as the instance wrote it, neither overwritten nor deleted by the
\* other instance.
C14_Original ==
    \A s \in Services :
        (gen_call[s] = "returned" /\ cleanup_call[s] = "none") =>
            CaptionFilesIntact(s)

(***************************************************************************)
(* C15-C17: the caption renderer, under SpecRenderer.                      *)
(***************************************************************************)
\* the text s with every character from replaced by the character to
ReplaceChar(s, from, to) == [i \in 1..Len(s) |-> IF s[i] = from THEN to ELSE s[i]]

\* the text is its words joined by single spaces, as the text of a chunk is
SingleSpaced(s) == s = Join(Split(s), <<" ">>)

\* C15: for a text that is words joined by single spaces, whatever the font
\* measures and whatever the width budget, the wrapped text with its line
\* breaks replaced by single spaces is the text: no word is dropped,
\* duplicated, split or reordered.
C15_WrapRoundTrip ==
    (render_call = "returned" /\ SingleSpaced(render_text)) =>
        /\ ReplaceChar(subtitle_image.wrapped_text, "\n", " ") = render_text
        /\ Split(subtitle_image.wrapped_text) = Split(render_text)

\* a text of six words was wrapped into three lines or more, one of them of
\* several words and one a single word wider than the budget
C15_Witness ==
    /\ render_call = "returned"
    /\ Len(Split(render_text)) = SUBTITLE_MAX_WORDS_PER_CHUNK
    /\ Len(subtitle_image.lines) >= 3
    /\ \E k \in 1..Len(subtitle_image.lines) :
          Len(Split(subtitle_image.lines[k])) >= 2
    /\ \E k \in 1..Len(subtitle_image.lines) :
          /\ Len(Split(subtitle_image.lines[k])) = 1
          /\ TextWidth(subtitle_image.lines[k], font) > subtitle_image.max_text_width

\* the chunk text drawn on one line is wider than the budget of the image
WiderThanBudget ==
    TextWidth(render_text, font) > subtitle_image.max_text_width

\* C16 as stated: every chunk text whose width on a single line is greater
\* than the budget (90% of the width of the image) is wrapped into at least
\* two lines.
C16_Original ==
    (render_call = "returned" /\ SingleSpaced(render_text) /\ WiderThanBudget) =>
        Len(subtitle_image.lines) >= 2

\* C16, amended: a chunk text of two words or more that is wider than the
\* budget is wrapped into at least two lines; a text of a single word is one
\* line, whatever its width.
C16_WideTextOfSeveralWordsWraps ==
    (render_call = "returned" /\ SingleSpaced(render_text)) =>
        /\ (WiderThanBudget /\ Len(Split(render_text)) >= 2) =>
               Len(subtitle_image.lines) >= 2
        /\ Len(Split(render_text)) = 1 => Len(subtitle_image.lines) = 1

\* a text of two words, wider than the budget as a whole while each word fits,
\* was wrapped into two lines
C16_Witness ==
    /\ render_call = "returned"
    /\ Len(Split(render_text)) = 2
    /\ WiderThanBudget
    /\ Len(subtitle_image.lines) = 2
    /\ \A k \in 1..2 :
          TextWidth(subtitle_image.lines[k], font) <= subtitle_image.max_text_width

\* create_subtitle_chunks makes the text t the text of a chunk: the narration
\* t itself, spoken in 1 or in 3 seconds, is a single chunk
IsChunkText(t) ==
    \E total \in {RInt(1), RInt(3)} :
        \E r \in {create_subtitle_chunks(t, total)} :
            /\ ~r.raised
            /\ Len(r.chunks) = 1
            /\ r.chunks[1].text = t

\* C17 as stated: for every chunk the chunker can produce (at most
\* SUBTITLE_MAX_WORDS_PER_CHUNK words), the wrapped text is not higher than the
\* image (lines times line height at most 20% of the video height), so that
\* y_start is not negative.
C17_Original ==
    (/\ render_call = "returned"
     /\ Len(Split(render_text)) \in 1..SUBTITLE_MAX_WORDS_PER_CHUNK
     /\ SingleSpaced(render_text)) =>
        \/ /\ subtitle_image.total_text_height <= subtitle_image.subtitle_height
           /\ subtitle_image.y_start >= 0
        \/ ~IsChunkText(render_text)

(***************************************************************************)
(* C18: where create_subtitle_chunks closes a chunk, under SpecChunker.    *)
(***************************************************************************)
\* one of the four conditions holds for the word at position p of chunk k,
\* read off what the call returned: the span from the start of the chunk to
\* the end of the word, the word's characters, its position in the chunk and
\* its position in the text
EndConditionHolds(k, p) ==
    LET timing == call_word_timings[WordsBefore(k) + p]
    IN \/ RGe(RSub(timing.end_time, subtitle_chunks[k].start_time),
              RInt(SUBTITLE_CHUNK_DURATION))
       \/ \E c \in 1..Len(timing.word) : timing.word[c] \in {".", ",", "!", "?", ";", ":"}
       \/ p >= SUBTITLE_MAX_WORDS_PER_CHUNK
       \/ WordsBefore(k) + p = Len(call_word_timings)

\* C18: a word is the last word of its chunk if and only if, once it is
\* appended, the span from the chunk's start to its end_time is at least
\* SUBTITLE_CHUNK_DURATION, or it contains one of . , ! ? ; :, or the chunk
\* holds SUBTITLE_MAX_WORDS_PER_CHUNK words, or it is the last word of the
\* text. So a word with punctuation closes its chunk whatever the span, and no
\* chunk is closed when none of the four holds.
C18_ChunkEndsIffCondition ==
    Returned =>
        /\ WordsBefore(NChunks + 1) = Len(call_word_timings)
        /\ \A k \in 1..NChunks :
              \A p \in 1..Len(ChunkWords(k)) :
                  (p = Len(ChunkWords(k))) <=> EndConditionHolds(k, p)

\* a chunk of several words, fewer than the maximum, shorter than the
\* threshold and not the last one, closed by a word with punctuation
C18_Witness ==
    /\ Returned
    /\ \E k \in 1..(NChunks - 1) :
          /\ Len(ChunkWords(k)) \in 2..(SUBTITLE_MAX_WORDS_PER_CHUNK - 1)
          /\ RLt(subtitle_chunks[k].duration, RInt(SUBTITLE_CHUNK_DURATION))
          /\ "." = ChunkWords(k)[Len(ChunkWords(k))][Len(ChunkWords(k)[Len(ChunkWords(k))])]

(***************************************************************************)
(* C19-C20: _estimate_word_duration, under SpecEstimator.                  *)
(***************************************************************************)
\* the token without its last character
Front(s) == SubSeq(s, 1, Len(s) - 1)

\* the token is a word without punctuation followed by one of . , ! ? ; :
\* ("today."), and the word has letters
TrailingPunctuation(token) ==
    /\ Len(token) >= 2
    /\ token[Len(token)] \in Punctuation
    /\ ~ContainsAny(Front(token), Punctuation)
    /\ Strip(Lower(Front(token)), StripChars) # <<>>

\* C19 as stated: the pause of 0.2 s is added whenever the token as it was
\* passed, before stripping, contains one of . , ! ? ; : -- a token with
\* trailing punctuation ("today.") gets an estimate 0.2 s longer than the same
\* token without it ("today").
C19_Original ==
    (est_call = "returned" /\ TrailingPunctuation(word)) =>
        est_duration = RAdd(_estimate_word_duration(Front(word)), Rat(2, 10))

\* the normalized form of a token: lower-cased, from its first to its last
\* character that is none of . , ! ? ; : "
Normalized(token) ==
    LET kept == {i \in 1..Len(token) : token[i] \notin {".", ",", "!", "?", ";", ":", "\""}}
    IN IF kept = {} THEN <<>>
       ELSE LET first == CHOOSE i \in kept : \A j \in kept : i <= j
                last == CHOOSE i \in kept : \A j \in kept : j <= i
            IN [i \in 1..(last - first + 1) |-> LowerChar(token[first + i - 1])]

\* the number of maximal runs of the vowels a e i o u in w
VowelRuns(w) ==
    Cardinality({i \in 1..Len(w) :
                    /\ w[i] \in {"a", "e", "i", "o", "u"}
                    /\ i = 1 \/ w[i - 1] \notin {"a", "e", "i", "o", "u"}})

\* 0.15 s per syllable, the syllables floored at 1, times 12/10 for a word of
\* 8 characters or more, times 7/10 for one of the twelve function words, in
\* thousandths of a second
ExpectedMillis(w) ==
    LET syllables == IF VowelRuns(w) >= 1 THEN VowelRuns(w) ELSE 1
        long == IF Len(w) >= 8 THEN 12 ELSE 10
        fast == IF w \in { <<"a">>, <<"a", "n">>, <<"a", "n", "d">>, <<"t", "h", "e">>,
                           <<"i", "s">>, <<"i", "n">>, <<"o", "n">>, <<"a", "t">>,
                           <<"t", "o">>, <<"o", "f">>, <<"i", "t">>, <<"o", "r">> }
                THEN 7 ELSE 10
    IN (150 * syllables * long * fast) \div 100

\* C20: for every token whose normalized form is not empty, the duration
\* before the punctuation pause is 0.15 s times the number of maximal vowel
\* runs of the normalized word (at least 1), times 1.2 if the normalized word
\* has 8 characters or more, times 0.7 if it is a function word; the result is
\* that or that plus the pause.
C20_DurationBeforePause ==
    (est_call = "returned" /\ Normalized(word) # <<>>) =>
        /\ est_before_pause = Rat(ExpectedMillis(Normalized(word)), 1000)
        /\ est_duration \in {est_before_pause, RAdd(est_before_pause, Rat(2, 10))}

\* a word of exactly 8 characters and 2 syllables: 0.15 * 2 * 1.2 = 0.36 s
C20_Witness ==
    /\ est_call = "returned"
    /\ Len(Normalized(word)) = 8
    /\ VowelRuns(Normalized(word)) = 2
    /\ est_before_pause = Rat(36, 100)

(***************************************************************************)
(* C21: generate_tts, under SpecTts.                                       *)
(***************************************************************************)
\* the order of the providers the claim states
FallbackOrder == <<"ElevenLabs", "OpenAI TTS", "Azure Neural Voices", "Google TTS">>

\* C21: generate_tts calls the providers in the order ElevenLabs, OpenAI,
\* Azure, Google and none after the first that succeeds, whose audio path it
\* returns; it returns None exactly when all four failed or were unavailable,
\* or when the script is empty, and then without calling any provider; no
\* exception of a provider leaves the call.
C21_ProvidersInOrderUntilSuccess ==
    /\ tts_pc # "raised"
    /\ Len(tts_log) <= Len(FallbackOrder)
    /\ \A i \in 1..Len(tts_log) : tts_log[i].method = FallbackOrder[i]
    /\ \A i \in 1..(Len(tts_log) - 1) : tts_log[i].ended # "ok"
    /\ tts_pc \in {"none", "trying"} =>
           \A i \in 1..Len(tts_log) : tts_log[i].ended # "ok"
    /\ tts_pc = "returned" =>
           /\ tts_script # <<>>
           /\ tts_log # <<>>
           /\ tts_log[Len(tts_log)].ended = "ok"
           /\ tts_result[1] = "audio"
           /\ tts_result[3] = IF Len(tts_log) = 3 THEN "wav" ELSE "mp3"
    /\ tts_pc = "returned_none" =>
           /\ tts_result = None
           /\ IF tts_script = <<>>
              THEN tts_log = <<>>
              ELSE /\ Len(tts_log) = Len(FallbackOrder)
                   /\ \A i \in 1..Len(tts_log) : tts_log[i].ended # "ok"

\* ElevenLabs was not configured, OpenAI raised, Azure succeeded: its path is
\* returned and Google was not called
C21_Witness ==
    /\ tts_pc = "returned"
    /\ Len(tts_log) = 3
    /\ tts_log[1].ended = "unavailable"
    /\ tts_log[2].ended = "raises"
    /\ tts_log[3].ended = "ok"
    /\ tts_configured["Google TTS"]
    /\ tts_result[3] = "wav"

(***************************************************************************)
(* C22: the caption files and temp_files, under Spec.                      *)
(***************************************************************************)
\* the caption files on disk that instance s wrote
CaptionFilesOf(s) == {p \in DOMAIN disk : p # output_file /\ disk[p].by = s}

\* every caption file on disk that instance s wrote is recorded in its
\* temp_files
AllRecorded(s) == CaptionFilesOf(s) \subseteq Recorded(s)

\* C22 as stated: no call of generate_subtitle_clips, aborted or not, leaves
\* on disk a caption file of its instance that is not in temp_files (a step
\* after which the instance's last call is not a cleanup keeps all its files
\* recorded); so a cleanup_temp_files call whose removals succeed leaves no
\* caption file of the instance on disk.
C22_Original ==
    [][\A s \in Services :
          /\ (AllRecorded(s) /\ cleanup_call'[s] = "none") => AllRecorded(s)'
          /\ (/\ AllRecorded(s)
              /\ cleanup_call'[s] = "returned"
              /\ Recorded(s) \cap DOMAIN disk' = {}) => CaptionFilesOf(s)' = {}]_vars

====
